---- MODULE Spec2Model ----
(***************************************************************************)
(* BasicTDL: a UDP-broadcast peer discovery node.                          *)
(*                                                                         *)
(*   NetworkManager  the transport (two sockets, Winsock start-up)         *)
(*   NodeManager     the peer registry (m_nodeMap guarded by m_mutex)      *)
(*   main.cpp        main, the receiver thread and the sender thread       *)
(*                                                                         *)
(* Spec     is the program: main constructs the transport, starts the two  *)
(*          threads, sets g_shutdown_flag, joins and tears down.           *)
(* SpecReg  is the NodeManager class alone, driven by one caller that      *)
(*          invokes its public operations with arbitrary arguments.        *)
(* SpecNet  is the NetworkManager class alone, driven by one caller that   *)
(*          constructs it, sends and receives, and destroys it.            *)
(* SpecFair is Spec with the fairness the scheduler and a receive          *)
(*          time-out give.                                                 *)
(*                                                                         *)
(* Time is std::chrono::steady_clock, counted in ticks of                  *)
(* 1/TicksPerSecond second.                                                *)
(***************************************************************************)
EXTENDS Integers, Sequences, FiniteSets, TLC

VARIABLES
    clock,            \* steady_clock::now(), in ticks
    m_selfNodeId,     \* NodeManager::m_selfNodeId
    m_nodeMap,        \* NodeManager::m_nodeMap : id -> NodeInfo
    m_mutex,          \* NodeManager::m_mutex : the thread that holds it
    pc,               \* each thread's position
    now,              \* each thread's local `now`
    arg,              \* each thread's argument of the registry call it is in
    nodeList,         \* each thread's vector returned by getNodeList
    packet,           \* receiver: the ReceivedPacket of this iteration
    lastPosSendTime,  \* sender: lastPosSendTime
    sentTestTextMessage, \* sender: sentTestTextMessage
    g_shutdown_flag,  \* main.cpp: g_shutdown_flag
    net,              \* the NetworkManager object's members
    os,               \* the network stack: sockets and Winsock reference
    exitCode,         \* main's return value
    ioRet,            \* each thread: what its call of the transport returned
    hist              \* history: what has been asked of the registry, the
                      \* peers heard from and not pruned since, whether
                      \* a heartbeat went out at this reading of the clock

vars == <<clock, m_selfNodeId, m_nodeMap, m_mutex, pc, now, arg, nodeList,
          packet, lastPosSendTime, sentTestTextMessage, g_shutdown_flag,
          net, os, exitCode, ioRet, hist>>

----------------------------------------------------------------------------
(* Bounds of the model *)

TicksPerSecond == 2
EarlyWindow == 0
LateWindow == 2
MaxNodeId == 3
MaxSourceId == 2

(* Program constants *)

SEND_INTERVAL_SECONDS == 5
NODE_TIMEOUT_SECONDS == SEND_INTERVAL_SECONDS * 3
MAX_TEXT_MSG_LENGTH == 64
POSITION_REPORT_TYPE == 1
HEARTBEAT_TYPE == 2
TEXT_MESSAGE_TYPE == 3
DefaultNodeId == 1

SizeofMessageHeader == 4 + 4
SizeofPositionReport == SizeofMessageHeader + 3 * 8
SizeofHeartbeatMessage == SizeofMessageHeader
SizeofTextMessage == SizeofMessageHeader + MAX_TEXT_MSG_LENGTH

----------------------------------------------------------------------------
(* Input domains *)

\* the ids the caller of SpecReg passes
NodeIds == 1..MaxNodeId

\* the ids in the headers of the datagrams that arrive
SourceIds == 1..MaxSourceId

\* The instants at which the clock is read: a window right after start and
\* a window around the node timeout.
Instants ==
    (0..EarlyWindow)
    \cup ((NODE_TIMEOUT_SECONDS * TicksPerSecond)
            ..(NODE_TIMEOUT_SECONDS * TicksPerSecond + LateWindow))

\* Timeouts the caller of SpecReg passes to pruneTimeouts, in seconds.
Timeouts == {0, NODE_TIMEOUT_SECONDS}

\* latitude, longitude, altitude of the reports that arrive
Positions ==
    { [latitude |-> 51, longitude |-> 7, altitude |-> 100],
      [latitude |-> 52, longitude |-> 8, altitude |-> 200] }

UnknownPosition == [latitude |-> 0, longitude |-> 0, altitude |-> 0]

\* a datagram too short or too long to be a PositionReport: no position bytes
NoBody == [latitude |-> 0, longitude |-> 0, altitude |-> 0]
NoOwner == "NoOwner"
INVALID_SOCKET == "INVALID_SOCKET"

MessageTypes == {POSITION_REPORT_TYPE, HEARTBEAT_TYPE, TEXT_MESSAGE_TYPE, 9}
PacketSizes == {4, SizeofMessageHeader, SizeofPositionReport, SizeofTextMessage}

\* The datagrams recvfrom can deliver. messageType and sourceNodeId are the
\* first eight bytes of the buffer (for a shorter datagram: whatever the
\* buffer holds there); body is the three doubles after the header, which
\* the program reads only from a position report of the right size.
Packets ==
    { [size |-> s, messageType |-> ty, sourceNodeId |-> src, body |-> b] :
        s \in PacketSizes, ty \in MessageTypes, src \in SourceIds,
        b \in {NoBody} \cup Positions }

IsPacket(p) ==
    (p.body # NoBody) <=> (p.size = SizeofPositionReport
                           /\ p.messageType = POSITION_REPORT_TYPE)

\* receivedOpt before a packet was received
NoPacket == [size |-> 0, messageType |-> 0, sourceNodeId |-> 0, body |-> NoBody]

----------------------------------------------------------------------------
(* TdlMessages.h *)

\* PositionReport(): the constructor sets the type, the members default to 0
PositionReportCtor ==
    [header |-> [messageType |-> POSITION_REPORT_TYPE, sourceNodeId |-> 0],
     latitude |-> 0, longitude |-> 0, altitude |-> 0]

\* a NodeInfo whose stored report keeps the default source id
NodeInfoCtor_NoSource(id, time) ==
    [nodeId |-> id,
     lastPosition |-> PositionReportCtor,
     lastHeardTime |-> time]

\* NodeInfo(id, time)
NodeInfoCtor(id, time) ==
    [nodeId |-> id,
     lastPosition |-> [PositionReportCtor EXCEPT !.header.sourceNodeId = id],
     lastHeardTime |-> time]

\* NodeInfo::updatePosition(report)
NodeInfo_updatePosition(info, report) ==
    [info EXCEPT !.lastPosition = report]

\* memcpy(&receivedReport, packet.data.data(), sizeof(PositionReport))
ReportOfPacket(p) ==
    [header |-> [messageType |-> p.messageType, sourceNodeId |-> p.sourceNodeId],
     latitude |-> p.body.latitude,
     longitude |-> p.body.longitude,
     altitude |-> p.body.altitude]

PositionOf(report) ==
    [latitude |-> report.latitude, longitude |-> report.longitude,
     altitude |-> report.altitude]

\* The argument of a registry call: nodeId (updateLastHeardTime), report
\* (updateNodePosition) or timeoutDuration in seconds (pruneTimeouts).
CallArg(op, nodeId, report, timeoutDuration) ==
    [op |-> op, nodeId |-> nodeId, report |-> report,
     timeoutDuration |-> timeoutDuration]

NoArg == CallArg("none", 0, PositionReportCtor, 0)

----------------------------------------------------------------------------
(* NodeManager.cpp: what each operation does to the map inside its lock *)

\* std::chrono::duration_cast<std::chrono::seconds>(d): truncation toward 0
DurationCastSeconds(d) ==
    IF d >= 0 THEN d \div TicksPerSecond ELSE -((-d) \div TicksPerSecond)

\* the keys of a std::map in iteration order (ascending)
RECURSIVE KeysInOrder(_)
KeysInOrder(S) ==
    IF S = {} THEN <<>>
    ELSE LET k == CHOOSE x \in S : \A y \in S : x <= y
         IN <<k>> \o KeysInOrder(S \ {k})

SeqRange(s) == { s[i] : i \in 1..Len(s) }

\* updateNodePosition, lines 30-46, with an entry rebuilt without its time
UpdateNodePositionMap_LosesTime(map, report, t) ==
    LET id == report.header.sourceNodeId
    IN IF id \notin DOMAIN map
       THEN (id :> NodeInfo_updatePosition(NodeInfoCtor(id, t), report)) @@ map
       ELSE [map EXCEPT ![id] = NodeInfo_updatePosition(NodeInfoCtor(id, 0), report)]

\* updateNodePosition, lines 30-46
UpdateNodePositionMap(map, report, t) ==
    LET id == report.header.sourceNodeId
    IN IF id \notin DOMAIN map
       THEN (id :> NodeInfo_updatePosition(NodeInfoCtor(id, t), report)) @@ map
       ELSE [map EXCEPT ![id] = [NodeInfo_updatePosition(@, report)
                                   EXCEPT !.lastHeardTime = t]]

\* updateLastHeardTime, lines 69-83, with a known node's entry replaced by
\* a fresh NodeInfo
UpdateLastHeardTimeMap_ResetsEntry(map, nodeId, t) ==
    (nodeId :> NodeInfoCtor(nodeId, t)) @@ map

\* updateLastHeardTime, lines 69-83, without the insertion of an unknown
\* node
UpdateLastHeardTimeMap_KnownOnly(map, nodeId, t) ==
    IF nodeId \in DOMAIN map
    THEN [map EXCEPT ![nodeId].lastHeardTime = t]
    ELSE map

\* updateLastHeardTime, lines 69-83, stamping every entry
UpdateLastHeardTimeMap_TouchesAll(map, nodeId, t) ==
    LET m == IF nodeId \in DOMAIN map THEN map
             ELSE (nodeId :> NodeInfoCtor(nodeId, t)) @@ map
    IN [k \in DOMAIN m |-> [m[k] EXCEPT !.lastHeardTime = t]]

\* updateLastHeardTime, lines 69-83
UpdateLastHeardTimeMap(map, nodeId, t) ==
    IF nodeId \in DOMAIN map
    THEN [map EXCEPT ![nodeId].lastHeardTime = t]
    ELSE (nodeId :> NodeInfoCtor(nodeId, t)) @@ map

\* a scan that marks nothing
NodesToRemove_Nothing(map, t, timeoutDuration) ==
    <<>>

\* marks an entry as soon as its age reaches the timeout
NodesToRemove_AtTimeout(map, t, timeoutDuration) ==
    KeysInOrder({ id \in DOMAIN map :
        DurationCastSeconds(t - map[id].lastHeardTime) >= timeoutDuration })

\* pruneTimeouts, lines 99-110: the vector nodesToRemove
NodesToRemove(map, t, timeoutDuration) ==
    KeysInOrder({ id \in DOMAIN map :
        DurationCastSeconds(t - map[id].lastHeardTime) > timeoutDuration })

\* pruneTimeouts, lines 115-119: m_nodeMap.erase for each marked id
RECURSIVE EraseAll(_, _)
EraseAll(map, ids) ==
    IF ids = <<>> THEN map
    ELSE EraseAll([k \in DOMAIN map \ {Head(ids)} |-> map[k]], Tail(ids))

\* a copy that misses the first entry
GetNodeListCopy_SkipsFirst(map) ==
    LET ks == KeysInOrder(DOMAIN map)
    IN [i \in 1..(Len(ks) - 1) |-> map[ks[i + 1]]]

\* getNodeList, lines 132-138: the copy, in the map's iteration order
GetNodeListCopy(map) ==
    LET ks == KeysInOrder(DOMAIN map)
    IN [i \in 1..Len(ks) |-> map[ks[i]]]

----------------------------------------------------------------------------
(* std::lock_guard<std::mutex> lock(m_mutex) *)

\* a lock that does not wait for the holder
lock_guard_NoWait(t) ==
    m_mutex' = t

lock_guard(t) ==
    /\ m_mutex = NoOwner
    /\ m_mutex' = t

\* ~lock_guard
unlock(t) ==
    m_mutex' = IF m_mutex = t THEN NoOwner ELSE m_mutex

----------------------------------------------------------------------------
(* Where a registry operation returns to *)

Continuation(t, op) ==
    CASE t = "rx" /\ op = "ulht" -> "rx_switch"
      [] t = "rx" /\ op = "unp" -> "rx_loop"
      [] t = "tx" /\ op = "prune" -> "gnl_lock"
      [] t = "tx" /\ op = "gnl" -> "print_out"
      [] OTHER -> "api_ret"

\* The locals of the operation go out of scope; the caller of SpecReg keeps
\* them until it has recorded the call.
Return(t, op) ==
    /\ pc' = [pc EXCEPT ![t] = Continuation(t, op)]
    /\ now' = IF t = "api" THEN now ELSE [now EXCEPT ![t] = 0]
    /\ arg' = IF t = "api" THEN arg ELSE [arg EXCEPT ![t] = NoArg]

Goto(t, loc) == pc' = [pc EXCEPT ![t] = loc]

\* what no registry operation touches
UNCHANGED_program ==
    UNCHANGED <<clock, m_selfNodeId, packet, lastPosSendTime,
                sentTestTextMessage, g_shutdown_flag, net, os, exitCode,
                ioRet, hist>>

\* history only: the entry of id is written while the sender's pruneTimeouts
\* call has read its clock (line 90) and not yet taken the lock (line 95)
RefreshedWhilePruneWaits(id) ==
    /\ hist' = IF pc["tx"] = "prune_lock"
               THEN [hist EXCEPT !.refreshedInPrune = @ \cup {id}]
               ELSE hist
    /\ UNCHANGED <<clock, m_selfNodeId, packet, lastPosSendTime,
                   sentTestTextMessage, g_shutdown_flag, net, os, exitCode,
                   ioRet>>

----------------------------------------------------------------------------
(* NodeManager::updateLastHeardTime(nodeId), thread t *)

\* the operation without its check of the own id
updateLastHeardTime_NoSelfCheck(nodeId) ==
    FALSE

\* lines 58-61: if (nodeId == m_selfNodeId) return;
updateLastHeardTime_IsSelf(nodeId) ==
    nodeId = m_selfNodeId

\* lines 58-63: the check of the own id, then now = steady_clock::now()
updateLastHeardTime_Entry(t) ==
    /\ pc[t] = "ulht_entry"
    /\ IF updateLastHeardTime_IsSelf(arg[t].nodeId)
       THEN Return(t, "ulht")
       ELSE /\ now' = [now EXCEPT ![t] = clock]
            /\ Goto(t, "ulht_lock")
            /\ UNCHANGED arg
    /\ UNCHANGED <<m_nodeMap, m_mutex, nodeList>>
    /\ UNCHANGED_program

\* line 66
updateLastHeardTime_Lock(t) ==
    /\ pc[t] = "ulht_lock"
    /\ lock_guard(t)
    /\ Goto(t, "ulht_crit")
    /\ UNCHANGED <<m_nodeMap, now, arg, nodeList>>
    /\ UNCHANGED_program

\* lines 69-81: find, then update or insert; a new node is announced on
\* std::cout before the lock is released
updateLastHeardTime_Crit(t) ==
    /\ pc[t] = "ulht_crit"
    /\ m_nodeMap' = UpdateLastHeardTimeMap(m_nodeMap, arg[t].nodeId, now[t])
    /\ IF arg[t].nodeId \in DOMAIN m_nodeMap
       THEN unlock(t) /\ Return(t, "ulht")
       ELSE Goto(t, "ulht_cout") /\ UNCHANGED <<m_mutex, now, arg>>
    /\ UNCHANGED nodeList
    /\ RefreshedWhilePruneWaits(arg[t].nodeId)

\* lines 82-84: std::cout << "Added new Node ID", then ~lock_guard
updateLastHeardTime_Cout(t) ==
    /\ pc[t] = "ulht_cout"
    /\ unlock(t)
    /\ Return(t, "ulht")
    /\ UNCHANGED <<m_nodeMap, nodeList>>
    /\ UNCHANGED_program

----------------------------------------------------------------------------
(* NodeManager::updateNodePosition(report), thread t *)

\* lines 17-20: if (report.header.sourceNodeId == m_selfNodeId) return;
updateNodePosition_IsSelf(report) ==
    report.header.sourceNodeId = m_selfNodeId

\* lines 17-22
updateNodePosition_Entry(t) ==
    /\ pc[t] = "unp_entry"
    /\ IF updateNodePosition_IsSelf(arg[t].report)
       THEN Return(t, "unp")
       ELSE /\ now' = [now EXCEPT ![t] = clock]
            /\ Goto(t, "unp_lock")
            /\ UNCHANGED arg
    /\ UNCHANGED <<m_nodeMap, m_mutex, nodeList>>
    /\ UNCHANGED_program

\* line 27
updateNodePosition_Lock(t) ==
    /\ pc[t] = "unp_lock"
    /\ lock_guard(t)
    /\ Goto(t, "unp_crit")
    /\ UNCHANGED <<m_nodeMap, now, arg, nodeList>>
    /\ UNCHANGED_program

\* lines 30-49
updateNodePosition_Crit(t) ==
    /\ pc[t] = "unp_crit"
    /\ m_nodeMap' = UpdateNodePositionMap(m_nodeMap, arg[t].report, now[t])
    /\ IF arg[t].report.header.sourceNodeId \in DOMAIN m_nodeMap
       THEN unlock(t) /\ Return(t, "unp")
       ELSE Goto(t, "unp_cout") /\ UNCHANGED <<m_mutex, now, arg>>
    /\ UNCHANGED nodeList
    /\ RefreshedWhilePruneWaits(arg[t].report.header.sourceNodeId)

\* lines 39, 50-51: std::cout << "Added new Node ID", then ~lock_guard
updateNodePosition_Cout(t) ==
    /\ pc[t] = "unp_cout"
    /\ unlock(t)
    /\ Return(t, "unp")
    /\ UNCHANGED <<m_nodeMap, nodeList>>
    /\ UNCHANGED_program

----------------------------------------------------------------------------
(* NodeManager::pruneTimeouts(timeoutDuration), thread t *)

\* lines 90-91
pruneTimeouts_Entry(t) ==
    /\ pc[t] = "prune_entry"
    /\ now' = [now EXCEPT ![t] = clock]
    /\ Goto(t, "prune_lock")
    /\ UNCHANGED <<m_nodeMap, m_mutex, arg, nodeList>>
    /\ UNCHANGED_program

\* line 95
pruneTimeouts_Lock(t) ==
    /\ pc[t] = "prune_lock"
    /\ lock_guard(t)
    /\ Goto(t, "prune_crit")
    /\ UNCHANGED <<m_nodeMap, now, arg, nodeList>>
    /\ UNCHANGED_program

\* lines 99-117: mark, then erase
pruneTimeouts_Crit(t) ==
    /\ pc[t] = "prune_crit"
    /\ LET nodesToRemove ==
            NodesToRemove(m_nodeMap, now[t], arg[t].timeoutDuration)
       IN /\ m_nodeMap' = EraseAll(m_nodeMap, nodesToRemove)
          /\ IF nodesToRemove = <<>>
             THEN unlock(t) /\ Return(t, "prune")
             ELSE Goto(t, "prune_cout") /\ UNCHANGED <<m_mutex, now, arg>>
    /\ hist' = [hist EXCEPT
                  !.heard = @ \ (DOMAIN m_nodeMap \ DOMAIN m_nodeMap'),
                  !.refreshedInPrune = {}]
    /\ UNCHANGED <<nodeList, clock, m_selfNodeId, packet, lastPosSendTime,
                   sentTestTextMessage, g_shutdown_flag, net, os, exitCode,
                   ioRet>>

\* lines 118-121: std::cout << "Timed out Node ID", then ~lock_guard
pruneTimeouts_Cout(t) ==
    /\ pc[t] = "prune_cout"
    /\ unlock(t)
    /\ Return(t, "prune")
    /\ UNCHANGED <<m_nodeMap, nodeList>>
    /\ UNCHANGED_program

----------------------------------------------------------------------------
(* NodeManager::getNodeList(), thread t *)

\* line 130
getNodeList_Lock(t) ==
    /\ pc[t] = "gnl_lock"
    /\ lock_guard(t)
    /\ Goto(t, "gnl_crit")
    /\ UNCHANGED <<m_nodeMap, now, arg, nodeList>>
    /\ UNCHANGED_program

\* lines 132-140
getNodeList_Crit(t) ==
    /\ pc[t] = "gnl_crit"
    /\ nodeList' = [nodeList EXCEPT ![t] = GetNodeListCopy(m_nodeMap)]
    /\ unlock(t)
    /\ Return(t, "gnl")
    /\ UNCHANGED m_nodeMap
    /\ UNCHANGED_program

\* one step of a registry operation by thread t
NodeManagerStep(t) ==
    \/ updateLastHeardTime_Entry(t)
    \/ updateLastHeardTime_Lock(t)
    \/ updateLastHeardTime_Crit(t)
    \/ updateLastHeardTime_Cout(t)
    \/ updateNodePosition_Entry(t)
    \/ updateNodePosition_Lock(t)
    \/ updateNodePosition_Crit(t)
    \/ updateNodePosition_Cout(t)
    \/ pruneTimeouts_Entry(t)
    \/ pruneTimeouts_Lock(t)
    \/ pruneTimeouts_Crit(t)
    \/ pruneTimeouts_Cout(t)
    \/ getNodeList_Lock(t)
    \/ getNodeList_Crit(t)

----------------------------------------------------------------------------
(* steady_clock *)

Tick ==
    /\ \E v \in Instants : v > clock /\ clock' = v
    /\ hist' = [hist EXCEPT !.heartbeatAtThisTime = FALSE]
    /\ UNCHANGED <<m_selfNodeId, m_nodeMap, m_mutex, pc, now, arg, nodeList,
                   packet, lastPosSendTime, sentTestTextMessage,
                   g_shutdown_flag, net, os, exitCode, ioRet>>

----------------------------------------------------------------------------
(* Initial values shared by both specifications *)

Threads == {"main", "rx", "tx", "api"}

EmptyMap == [id \in {} |-> NodeInfoCtor(id, 0)]

\* NetworkManager.h lines 42-44: the members' default initializers
NetMembersDefault ==
    [m_initialized |-> FALSE,
     m_sendSocket |-> INVALID_SOCKET,
     m_recvSocket |-> INVALID_SOCKET]

\* the network stack before the process has used it
OsInit ==
    [wsaStartups |-> 0, wsaCleanups |-> 0,
     created |-> {},
     closes |-> [s \in {"sendSocket", "recvSocket"} |-> 0],
     broadcast |-> FALSE, rcvtimeo |-> FALSE, bound |-> FALSE]

\* no call of the transport has returned
NoRet == [op |-> "none", outcome |-> "none", value |-> FALSE, cerr |-> FALSE]

HistInit ==
    [last |-> [id \in {} |-> [time |-> 0, pos |-> UnknownPosition]],
     pruned |-> FALSE,
     increasing |-> TRUE,
     heard |-> {},
     heartbeatAtThisTime |-> FALSE,
     refreshedInPrune |-> {}]

InitCommon ==
    /\ clock = 0
    /\ m_selfNodeId = DefaultNodeId
    /\ m_nodeMap = EmptyMap
    /\ m_mutex = NoOwner
    /\ now = [t \in Threads |-> 0]
    /\ arg = [t \in Threads |-> NoArg]
    /\ nodeList = [t \in Threads |-> <<>>]
    /\ packet = NoPacket
    /\ lastPosSendTime = 0
    /\ sentTestTextMessage = FALSE
    /\ g_shutdown_flag = FALSE
    /\ net = NetMembersDefault
    /\ os = OsInit
    /\ exitCode = -1
    /\ ioRet = [t \in Threads |-> NoRet]
    /\ hist = HistInit

----------------------------------------------------------------------------
(* NetworkManager.cpp: constructor and destructor *)

InitSteps ==
    <<"WSAStartup", "sendSocket", "SO_BROADCAST", "inet_pton", "recvSocket",
      "bind">>

InitFailures == SeqRange(InitSteps) \cup {"none"}

\* closesocket(s)
CloseSocket(o, s) == [o EXCEPT !.closes[s] = @ + 1]

\* WSACleanup()
WSACleanup(o) == [o EXCEPT !.wsaCleanups = @ + 1]

\* socket(AF_INET, SOCK_DGRAM, IPPROTO_UDP) returning handle s
CreateSocket(o, s) == [o EXCEPT !.created = @ \cup {s}]

\* NetworkManager::NetworkManager, lines 8-90. failAt is the call that fails
\* ("none": all succeed); rcvtimeoOk is whether setsockopt(SO_RCVTIMEO)
\* succeeds, a failure the constructor tolerates (lines 65-69).
\* The result is the pair of the object's members and the network stack.
NetworkManager_Ctor(n, o, failAt, rcvtimeoOk) ==
    IF failAt = "WSAStartup" THEN <<n, o>>
    ELSE LET o1 == [o EXCEPT !.wsaStartups = @ + 1] IN
    IF failAt = "sendSocket" THEN <<n, WSACleanup(o1)>>
    ELSE LET n2 == [n EXCEPT !.m_sendSocket = "sendSocket"]
             o2 == CreateSocket(o1, "sendSocket") IN
    IF failAt = "SO_BROADCAST"
    THEN <<n2, WSACleanup(CloseSocket(o2, n2.m_sendSocket))>>
    ELSE LET o3 == [o2 EXCEPT !.broadcast = TRUE] IN
    IF failAt = "inet_pton"
    THEN <<n2, WSACleanup(CloseSocket(o3, n2.m_sendSocket))>>
    ELSE IF failAt = "recvSocket"
    THEN <<n2, WSACleanup(CloseSocket(o3, n2.m_sendSocket))>>
    ELSE LET n5 == [n2 EXCEPT !.m_recvSocket = "recvSocket"]
             o5 == CreateSocket(o3, "recvSocket")
             o6 == [o5 EXCEPT !.rcvtimeo = rcvtimeoOk] IN
    IF failAt = "bind"
    THEN <<n5, WSACleanup(CloseSocket(CloseSocket(o6, n5.m_recvSocket),
                                      n5.m_sendSocket))>>
    ELSE <<[n5 EXCEPT !.m_initialized = TRUE], [o6 EXCEPT !.bound = TRUE]>>

\* NetworkManager::~NetworkManager, lines 92-108
NetworkManager_Dtor(n, o) ==
    LET o1 == IF n.m_sendSocket # INVALID_SOCKET
              THEN CloseSocket(o, n.m_sendSocket) ELSE o
        o2 == IF n.m_recvSocket # INVALID_SOCKET
              THEN CloseSocket(o1, n.m_recvSocket) ELSE o1
    IN IF n.m_initialized THEN WSACleanup(o2) ELSE o2

\* NetworkManager::isInitialized
isInitialized == net.m_initialized

\* NetworkManager::sendBroadcast, lines 115-140: the return value, given
\* what sendto does ("error": SOCKET_ERROR, "partial": fewer bytes, "full")
SendOutcomes == {"error", "partial", "full"}

sendBroadcast(outcome) ==
    IF ~net.m_initialized \/ net.m_sendSocket = INVALID_SOCKET THEN FALSE
    ELSE outcome # "error"

\* The call as its caller sees it: what sendto did ("none": it was not
\* called), the value returned and whether a line went to std::cerr
\* (lines 133-139).
sendBroadcast_Call(outcome) ==
    IF ~net.m_initialized \/ net.m_sendSocket = INVALID_SOCKET
    THEN [op |-> "send", outcome |-> "none", value |-> FALSE, cerr |-> FALSE]
    ELSE [op |-> "send", outcome |-> outcome,
          value |-> sendBroadcast(outcome), cerr |-> outcome # "full"]

\* NetworkManager::receive, lines 142-197: what recvfrom can do. Without
\* SO_RCVTIMEO the call does not time out.
RecvOutcomes ==
    {"WSAECONNRESET", "error", "zero", "data"}
    \cup (IF os.rcvtimeo THEN {"WSAETIMEDOUT"} ELSE {})

\* a receive that reports its time-out like any other failure
receive_LogsTimeout(outcome) ==
    IF ~net.m_initialized \/ net.m_recvSocket = INVALID_SOCKET
    THEN [op |-> "receive", outcome |-> "none", value |-> FALSE,
          cerr |-> FALSE]
    ELSE [op |-> "receive", outcome |-> outcome, value |-> outcome = "data",
          cerr |-> outcome \in {"WSAETIMEDOUT", "WSAECONNRESET", "error"}]

\* NetworkManager::receive, lines 142-197, given what recvfrom does: `value`
\* is whether the optional returned holds a packet, `cerr` whether a line
\* went to std::cerr (lines 172 and 177).
receive(outcome) ==
    IF ~net.m_initialized \/ net.m_recvSocket = INVALID_SOCKET
    THEN [op |-> "receive", outcome |-> "none", value |-> FALSE,
          cerr |-> FALSE]
    ELSE [op |-> "receive", outcome |-> outcome, value |-> outcome = "data",
          cerr |-> outcome \in {"WSAECONNRESET", "error"}]

----------------------------------------------------------------------------
(* main.cpp: main *)

UNCHANGED_registry ==
    UNCHANGED <<m_selfNodeId, m_nodeMap, m_mutex, now, arg, nodeList, ioRet,
                hist>>

\* line 215: std::make_unique<NetworkManager>(TDL_PORT, BROADCAST_ADDRESS_STR)
main_Construct ==
    /\ pc["main"] = "main_start"
    /\ \E failAt \in InitFailures, rcvtimeoOk \in BOOLEAN :
         LET r == NetworkManager_Ctor(net, os, failAt, rcvtimeoOk)
         IN net' = r[1] /\ os' = r[2]
    /\ Goto("main", "main_check")
    /\ UNCHANGED <<clock, packet, lastPosSendTime, sentTestTextMessage,
                   g_shutdown_flag, exitCode>>
    /\ UNCHANGED_registry

\* lines 217-230: return 1 (the unique_ptr destroys the transport), or
\* start both threads
main_Check ==
    /\ pc["main"] = "main_check"
    /\ IF ~isInitialized
       THEN /\ os' = NetworkManager_Dtor(net, os)
            /\ exitCode' = 1
            /\ pc' = [pc EXCEPT !["main"] = "main_exit"]
       ELSE /\ pc' = [pc EXCEPT !["main"] = "main_wait",
                                !["rx"] = "rx_loop",
                                !["tx"] = "tx_init"]
            /\ UNCHANGED <<os, exitCode>>
    /\ UNCHANGED <<clock, packet, lastPosSendTime, sentTestTextMessage,
                   g_shutdown_flag, net>>
    /\ UNCHANGED_registry

\* lines 234-238: std::cin.get() returns; g_shutdown_flag = true
main_Shutdown ==
    /\ pc["main"] = "main_wait"
    /\ g_shutdown_flag' = TRUE
    /\ Goto("main", "main_join_rx")
    /\ UNCHANGED <<clock, packet, lastPosSendTime, sentTestTextMessage,
                   net, os, exitCode>>
    /\ UNCHANGED_registry

\* line 241: rxThread.join()
main_JoinRx ==
    /\ pc["main"] = "main_join_rx"
    /\ pc["rx"] = "rx_done"
    /\ Goto("main", "main_join_tx")
    /\ UNCHANGED <<clock, packet, lastPosSendTime, sentTestTextMessage,
                   g_shutdown_flag, net, os, exitCode>>
    /\ UNCHANGED_registry

\* a main that does not wait for the sender
main_JoinTx_NoWait ==
    /\ pc["main"] = "main_join_tx"
    /\ Goto("main", "main_return")
    /\ UNCHANGED <<clock, packet, lastPosSendTime, sentTestTextMessage,
                   g_shutdown_flag, net, os, exitCode>>
    /\ UNCHANGED_registry

\* line 242: txThread.join()
main_JoinTx ==
    /\ pc["main"] = "main_join_tx"
    /\ pc["tx"] = "tx_done"
    /\ Goto("main", "main_return")
    /\ UNCHANGED <<clock, packet, lastPosSendTime, sentTestTextMessage,
                   g_shutdown_flag, net, os, exitCode>>
    /\ UNCHANGED_registry

\* lines 250-252: return 0; the unique_ptr destroys the transport
main_Return ==
    /\ pc["main"] = "main_return"
    /\ os' = NetworkManager_Dtor(net, os)
    /\ exitCode' = 0
    /\ Goto("main", "main_exit")
    /\ UNCHANGED <<clock, packet, lastPosSendTime, sentTestTextMessage,
                   g_shutdown_flag, net>>
    /\ UNCHANGED_registry

----------------------------------------------------------------------------
(* main.cpp: receiverThreadFunc *)

UNCHANGED_rx ==
    UNCHANGED <<clock, m_selfNodeId, m_nodeMap, m_mutex, nodeList,
                lastPosSendTime, sentTestTextMessage, g_shutdown_flag,
                net, os, exitCode>>

\* a loop that never looks at the flag
rx_LoopCondition_Forever ==
    TRUE

\* line 35: the condition of while (!g_shutdown_flag)
rx_LoopCondition ==
    ~g_shutdown_flag

\* line 35: while (!g_shutdown_flag)
rx_Loop ==
    /\ pc["rx"] = "rx_loop"
    /\ Goto("rx", IF rx_LoopCondition THEN "rx_recv" ELSE "rx_done")
    /\ UNCHANGED <<packet, now, arg, ioRet, hist>>
    /\ UNCHANGED_rx

\* a receiver that takes any packet for long enough
rx_TooSmall_NoCheck(p) ==
    FALSE

\* line 45: packet.data.size() < sizeof(MessageHeader)
rx_TooSmall(p) ==
    p.size < SizeofMessageHeader

\* a receiver that does not filter its own broadcasts
rx_IsSelf_NoCheck(p) ==
    FALSE

\* line 60: header->sourceNodeId == nodeManager.getSelfNodeId()
rx_IsSelf(p) ==
    p.sourceNodeId = m_selfNodeId

\* line 38: netMgr.receive() returns, recvfrom having done r
rx_Receive(r) ==
    /\ pc["rx"] = "rx_recv"
    /\ r \in RecvOutcomes
    /\ ~receive(r).value
    /\ ioRet' = [ioRet EXCEPT !["rx"] = receive(r)]
    /\ Goto("rx", "rx_nothing")
    /\ UNCHANGED <<packet, now, arg, hist>>
    /\ UNCHANGED_rx

\* line 38: netMgr.receive() returns std::nullopt (time-out, error, empty
\* datagram)
rx_ReceiveNothing ==
    \E r \in {"WSAETIMEDOUT", "WSAECONNRESET", "error", "zero"} :
      rx_Receive(r)

\* a receiver that gives up when nothing was received
rx_OnNullopt_Break ==
    "rx_done"

\* line 41: continue
rx_OnNullopt ==
    "rx_loop"

\* lines 40-41: if (!receivedOpt) continue
rx_Continue ==
    /\ pc["rx"] = "rx_nothing"
    /\ ioRet' = [ioRet EXCEPT !["rx"] = NoRet]
    /\ Goto("rx", rx_OnNullopt)
    /\ UNCHANGED <<packet, now, arg, hist>>
    /\ UNCHANGED_rx

\* lines 38-66: netMgr.receive() returns a packet; the size check, the
\* check of the sender, then the call of
\* updateLastHeardTime(header->sourceNodeId)
rx_ReceivePacket ==
    /\ pc["rx"] = "rx_recv"
    /\ "data" \in RecvOutcomes
    /\ receive("data").value
    /\ \E p \in Packets :
         /\ IsPacket(p)
         /\ IF rx_TooSmall(p)
            THEN /\ Goto("rx", "rx_warn_small")
                 /\ packet' = p
                 /\ UNCHANGED <<arg, hist>>
            ELSE IF rx_IsSelf(p)
            THEN /\ Goto("rx", "rx_loop")
                 /\ UNCHANGED <<packet, arg, hist>>
            ELSE /\ arg' = [arg EXCEPT !["rx"] =
                              CallArg("ulht", p.sourceNodeId,
                                      PositionReportCtor, 0)]
                 /\ Goto("rx", "ulht_entry")
                 /\ packet' = p
                 /\ hist' = [hist EXCEPT !.heard = @ \cup {p.sourceNodeId}]
    /\ UNCHANGED <<now, ioRet>>
    /\ UNCHANGED_rx

\* lines 47-48: std::cerr << "Received packet too small"; continue
rx_WarnSmall ==
    /\ pc["rx"] = "rx_warn_small"
    /\ packet' = NoPacket
    /\ Goto("rx", "rx_loop")
    /\ UNCHANGED <<now, arg, ioRet, hist>>
    /\ UNCHANGED_rx

\* a switch that takes every packet of a position report's size for one
rx_IsPositionReport_AnyType(p) ==
    p.size = SizeofPositionReport

\* lines 71-73: case POSITION_REPORT_TYPE with
\* packet.data.size() == sizeof(PositionReport)
rx_IsPositionReport(p) ==
    /\ p.messageType = POSITION_REPORT_TYPE
    /\ p.size = SizeofPositionReport

\* lines 69-117: switch (header->messageType)
rx_Switch ==
    /\ pc["rx"] = "rx_switch"
    /\ IF rx_IsPositionReport(packet)
       THEN /\ arg' = [arg EXCEPT !["rx"] =
                         CallArg("unp", 0, ReportOfPacket(packet), 0)]
            /\ Goto("rx", "unp_entry")
            /\ packet' = NoPacket
       ELSE IF packet.messageType = TEXT_MESSAGE_TYPE
               /\ packet.size = SizeofTextMessage
       THEN Goto("rx", "rx_print_text") /\ UNCHANGED <<packet, arg>>
       ELSE Goto("rx", "rx_loop") /\ packet' = NoPacket /\ UNCHANGED arg
    /\ UNCHANGED <<now, ioRet, hist>>
    /\ UNCHANGED_rx

\* lines 105-108: the text message goes to std::cout
rx_PrintText ==
    /\ pc["rx"] = "rx_print_text"
    /\ packet' = NoPacket
    /\ Goto("rx", "rx_loop")
    /\ UNCHANGED <<now, arg, ioRet, hist>>
    /\ UNCHANGED_rx

receiverThreadFunc ==
    \/ rx_Loop
    \/ rx_ReceiveNothing
    \/ rx_Continue
    \/ rx_ReceivePacket
    \/ rx_WarnSmall
    \/ rx_Switch
    \/ rx_PrintText

----------------------------------------------------------------------------
(* main.cpp: senderThreadFunc *)

UNCHANGED_tx ==
    UNCHANGED <<clock, m_selfNodeId, m_nodeMap, m_mutex, packet,
                g_shutdown_flag, net, os, exitCode>>

\* line 136: auto lastPosSendTime = steady_clock::now()
tx_Init ==
    /\ pc["tx"] = "tx_init"
    /\ lastPosSendTime' = clock
    /\ Goto("tx", "tx_loop")
    /\ UNCHANGED <<sentTestTextMessage, now, arg, nodeList, ioRet, hist>>
    /\ UNCHANGED_tx

\* a loop that never looks at the flag
tx_LoopCondition_Forever ==
    TRUE

\* line 140: the condition of while (!g_shutdown_flag)
tx_LoopCondition ==
    ~g_shutdown_flag

\* lines 140-142: while (!g_shutdown_flag) { now = steady_clock::now()
tx_Loop ==
    /\ pc["tx"] = "tx_loop"
    /\ IF tx_LoopCondition
       THEN Goto("tx", "tx_pos") /\ now' = [now EXCEPT !["tx"] = clock]
       ELSE Goto("tx", "tx_done") /\ UNCHANGED now
    /\ UNCHANGED <<lastPosSendTime, sentTestTextMessage, arg, nodeList,
                   ioRet, hist>>
    /\ UNCHANGED_tx

\* a sender that sends its position on every iteration
tx_PositionDue_Always ==
    TRUE

\* line 145: now - lastPosSendTime >= posSendInterval
tx_PositionDue ==
    now["tx"] - lastPosSendTime >= SEND_INTERVAL_SECONDS * TicksPerSecond

\* lines 145-154: the position report, when its interval has elapsed:
\* netMgr.sendBroadcast(&myPosReport, sizeof(myPosReport)).
\* The iteration does not read `now` after the position report.
tx_Position ==
    /\ pc["tx"] = "tx_pos"
    /\ IF tx_PositionDue
       THEN /\ \E outcome \in SendOutcomes :
                 ioRet' = [ioRet EXCEPT !["tx"] = sendBroadcast_Call(outcome)]
            /\ Goto("tx", "tx_pos_ret")
            /\ UNCHANGED now
       ELSE /\ Goto("tx", "tx_hb")
            /\ now' = [now EXCEPT !["tx"] = 0]
            /\ UNCHANGED ioRet
    /\ UNCHANGED <<lastPosSendTime, sentTestTextMessage, arg, nodeList, hist>>
    /\ UNCHANGED_tx

\* lines 154-160: if (sendBroadcast(...)) lastPosSendTime = now
tx_PositionRet ==
    /\ pc["tx"] = "tx_pos_ret"
    /\ lastPosSendTime' = IF ioRet["tx"].value THEN now["tx"]
                          ELSE lastPosSendTime
    /\ ioRet' = [ioRet EXCEPT !["tx"] = NoRet]
    /\ now' = [now EXCEPT !["tx"] = 0]
    /\ Goto("tx", "tx_hb")
    /\ UNCHANGED <<sentTestTextMessage, arg, nodeList, hist>>
    /\ UNCHANGED_tx

\* lines 163-174: the heartbeat, on every iteration; what sendBroadcast
\* returns changes nothing
tx_Heartbeat ==
    /\ pc["tx"] = "tx_hb"
    /\ Goto("tx", "tx_text")
    /\ hist' = [hist EXCEPT !.heartbeatAtThisTime = TRUE]
    /\ UNCHANGED <<lastPosSendTime, sentTestTextMessage, now, arg, nodeList,
                   ioRet>>
    /\ UNCHANGED_tx

\* line 196: nodeManager.pruneTimeouts(seconds(NODE_TIMEOUT_SECONDS))
tx_CallPrune ==
    /\ arg' = [arg EXCEPT !["tx"] =
                 CallArg("prune", 0, PositionReportCtor, NODE_TIMEOUT_SECONDS)]
    /\ Goto("tx", "prune_entry")

\* lines 177-196: the test text message, until one send succeeded:
\* netMgr.sendBroadcast(&testMsg, sizeof(testMsg)); once it is sent the
\* iteration goes on to pruneTimeouts
tx_Text ==
    /\ pc["tx"] = "tx_text"
    /\ IF ~sentTestTextMessage
       THEN /\ \E outcome \in SendOutcomes :
                 ioRet' = [ioRet EXCEPT !["tx"] = sendBroadcast_Call(outcome)]
            /\ Goto("tx", "tx_text_ret")
            /\ UNCHANGED arg
       ELSE tx_CallPrune /\ UNCHANGED ioRet
    /\ UNCHANGED <<lastPosSendTime, sentTestTextMessage, now, nodeList, hist>>
    /\ UNCHANGED_tx

\* lines 185-196: if (sendBroadcast(...)) sentTestTextMessage = true; then
\* pruneTimeouts
tx_TextRet ==
    /\ pc["tx"] = "tx_text_ret"
    /\ sentTestTextMessage' = ioRet["tx"].value
    /\ ioRet' = [ioRet EXCEPT !["tx"] = NoRet]
    /\ tx_CallPrune
    /\ UNCHANGED <<lastPosSendTime, now, nodeList, hist>>
    /\ UNCHANGED_tx

\* NodeManager::printNodeList lines 149-181 (after its getNodeList), then
\* main.cpp line 201: sleep_for(100ms)
tx_Print ==
    /\ pc["tx"] = "print_out"
    /\ nodeList' = [nodeList EXCEPT !["tx"] = <<>>]
    /\ Goto("tx", "tx_loop")
    /\ UNCHANGED <<lastPosSendTime, sentTestTextMessage, now, arg, ioRet,
                   hist>>
    /\ UNCHANGED_tx

senderThreadFunc ==
    \/ tx_Init
    \/ tx_Loop
    \/ tx_Position
    \/ tx_PositionRet
    \/ tx_Heartbeat
    \/ tx_Text
    \/ tx_TextRet
    \/ tx_Print

main ==
    \/ main_Construct
    \/ main_Check
    \/ main_Shutdown
    \/ main_JoinRx
    \/ main_JoinTx
    \/ main_Return

----------------------------------------------------------------------------
(* Spec: the program *)

Init ==
    /\ InitCommon
    /\ pc = [t \in Threads |->
               IF t = "main" THEN "main_start"
               ELSE IF t = "api" THEN "off" ELSE "not_started"]

Next ==
    \/ main
    \/ receiverThreadFunc
    \/ senderThreadFunc
    \/ NodeManagerStep("rx")
    \/ NodeManagerStep("tx")
    \/ Tick

Spec == Init /\ [][Next]_vars

----------------------------------------------------------------------------
(* SpecReg: one caller of the NodeManager's public operations *)

ApiCalls ==
    { CallArg("ulht", id, PositionReportCtor, 0) : id \in NodeIds }
    \cup
    { CallArg("unp", 0,
              [header |-> [messageType |-> POSITION_REPORT_TYPE,
                           sourceNodeId |-> id],
               latitude |-> p.latitude, longitude |-> p.longitude,
               altitude |-> p.altitude], 0) :
        id \in NodeIds, p \in Positions }
    \cup
    { CallArg("prune", 0, PositionReportCtor, T) : T \in Timeouts }
    \cup
    { CallArg("gnl", 0, PositionReportCtor, 0) }

EntryOf(op) ==
    CASE op = "ulht" -> "ulht_entry"
      [] op = "unp" -> "unp_entry"
      [] op = "prune" -> "prune_entry"
      [] OTHER -> "gnl_lock"

\* the caller invokes one operation
ApiCall ==
    /\ pc["api"] = "api_idle"
    /\ \E c \in ApiCalls :
         /\ arg' = [arg EXCEPT !["api"] = c]
         /\ Goto("api", EntryOf(c.op))
    /\ UNCHANGED <<clock, m_selfNodeId, m_nodeMap, m_mutex, now, nodeList,
                   packet, lastPosSendTime, sentTestTextMessage,
                   g_shutdown_flag, net, os, exitCode, ioRet, hist>>

\* What the sequence of completed calls asks of the registry: for each peer
\* the timestamp of its last update and the position of its last report.
Record(h, c, t) ==
    LET id == IF c.op = "ulht" THEN c.nodeId ELSE c.report.header.sourceNodeId
        known == id \in DOMAIN h.last
        pos == IF c.op = "unp" THEN PositionOf(c.report)
               ELSE IF known THEN h.last[id].pos ELSE UnknownPosition
    IN CASE c.op \in {"ulht", "unp"} /\ id # m_selfNodeId ->
              [h EXCEPT !.last = (id :> [time |-> t, pos |-> pos]) @@ h.last,
                        !.increasing = h.increasing
                                       /\ (known => t > h.last[id].time)]
         [] c.op = "prune" -> [h EXCEPT !.pruned = TRUE]
         [] OTHER -> h

\* the operation has returned to the caller
ApiReturn ==
    /\ pc["api"] = "api_ret"
    /\ hist' = Record(hist, arg["api"], now["api"])
    /\ now' = [now EXCEPT !["api"] = 0]
    /\ arg' = [arg EXCEPT !["api"] = NoArg]
    /\ nodeList' = [nodeList EXCEPT !["api"] = <<>>]
    /\ Goto("api", "api_idle")
    /\ UNCHANGED <<clock, m_selfNodeId, m_nodeMap, m_mutex, packet,
                   lastPosSendTime, sentTestTextMessage, g_shutdown_flag,
                   net, os, exitCode, ioRet>>

InitReg ==
    /\ InitCommon
    /\ pc = [t \in Threads |-> IF t = "api" THEN "api_idle" ELSE "off"]

NextReg ==
    \/ ApiCall
    \/ ApiReturn
    \/ NodeManagerStep("api")
    \/ Tick

SpecReg == InitReg /\ [][NextReg]_vars

----------------------------------------------------------------------------
(* SpecNet: one caller of the NetworkManager's public operations *)

UNCHANGED_net ==
    UNCHANGED <<clock, m_selfNodeId, m_nodeMap, m_mutex, now, arg, nodeList,
                lastPosSendTime, sentTestTextMessage, g_shutdown_flag,
                exitCode, hist>>

\* NetworkManager::NetworkManager
net_Construct ==
    /\ pc["api"] = "net_new"
    /\ \E failAt \in InitFailures, rcvtimeoOk \in BOOLEAN :
         LET r == NetworkManager_Ctor(net, os, failAt, rcvtimeoOk)
         IN net' = r[1] /\ os' = r[2]
    /\ Goto("api", "net_ready")
    /\ UNCHANGED <<packet, ioRet>>
    /\ UNCHANGED_net

\* NetworkManager::sendBroadcast
net_SendBroadcast ==
    /\ pc["api"] = "net_ready"
    /\ \E outcome \in SendOutcomes :
         ioRet' = [ioRet EXCEPT !["api"] = sendBroadcast_Call(outcome)]
    /\ UNCHANGED <<pc, packet, net, os>>
    /\ UNCHANGED_net

\* NetworkManager::receive
net_Receive ==
    /\ pc["api"] = "net_ready"
    /\ \E r \in RecvOutcomes :
         /\ ioRet' = [ioRet EXCEPT !["api"] = receive(r)]
         /\ IF receive(r).value
            THEN \E p \in Packets : IsPacket(p) /\ packet' = p
            ELSE packet' = NoPacket
    /\ UNCHANGED <<pc, net, os>>
    /\ UNCHANGED_net

\* NetworkManager::~NetworkManager
net_Destroy ==
    /\ pc["api"] = "net_ready"
    /\ os' = NetworkManager_Dtor(net, os)
    /\ Goto("api", "net_gone")
    /\ UNCHANGED <<packet, net, ioRet>>
    /\ UNCHANGED_net

InitNet ==
    /\ InitCommon
    /\ pc = [t \in Threads |-> IF t = "api" THEN "net_new" ELSE "off"]

NextNet ==
    \/ net_Construct
    \/ net_SendBroadcast
    \/ net_Receive
    \/ net_Destroy

SpecNet == InitNet /\ [][NextNet]_vars

-----------------------------------------------------------------------------
(* SpecQuiet: the program while it runs, with a peer that falls silent *)

\* the network delivers a datagram only while no peer heard from is
\* still registered: after its message the peer sends nothing until it has
\* been pruned
rx_ReceivePacket_PeerSilent ==
    /\ hist.heard = {}
    /\ rx_ReceivePacket

\* main.cpp lines 209-238 without the operator's Enter: both loops keep
\* running
NextQuiet ==
    \/ main_Construct
    \/ main_Check
    \/ rx_Loop
    \/ rx_ReceiveNothing
    \/ rx_Continue
    \/ rx_ReceivePacket_PeerSilent
    \/ rx_WarnSmall
    \/ rx_Switch
    \/ rx_PrintText
    \/ senderThreadFunc
    \/ NodeManagerStep("rx")
    \/ NodeManagerStep("tx")
    \/ Tick

\* the scheduler lets the sender thread take its next step (its sleep_for
\* of line 201 ends), and time passes
FairnessQuiet ==
    /\ WF_vars(senderThreadFunc \/ NodeManagerStep("tx"))
    /\ WF_vars(Tick)

SpecQuiet == Init /\ [][NextQuiet]_vars /\ FairnessQuiet

----------------------------------------------------------------------------
(* Vocabulary of the properties *)

\* the receiver thread takes a step
RxStep == pc'["rx"] # pc["rx"]

\* the sender thread takes a step
TxStep == pc'["tx"] # pc["tx"]

\* sizeof of the message a recognized type announces
ExpectedSize(ty) ==
    CASE ty = POSITION_REPORT_TYPE -> SizeofPositionReport
      [] ty = HEARTBEAT_TYPE -> SizeofHeartbeatMessage
      [] ty = TEXT_MESSAGE_TYPE -> SizeofTextMessage
      [] OTHER -> 0

RecognizedTypes == {POSITION_REPORT_TYPE, HEARTBEAT_TYPE, TEXT_MESSAGE_TYPE}

\* a packet from another node with a whole header, a recognized type and
\* not the size of that type
WrongSized(p) ==
    /\ p # NoPacket
    /\ p.size >= SizeofMessageHeader
    /\ p.messageType \in RecognizedTypes
    /\ p.sourceNodeId # m_selfNodeId
    /\ p.size # ExpectedSize(p.messageType)

\* a packet shorter than the header
Undersized(p) ==
    p # NoPacket /\ p.size < SizeofMessageHeader

\* where a thread reads or writes m_nodeMap
MapAccess == {"ulht_crit", "unp_crit", "prune_crit", "prune_cout", "gnl_crit"}

\* where a thread writes to std::cout or std::cerr
ConsoleOutput ==
    {"ulht_cout", "unp_cout", "prune_cout", "rx_warn_small", "rx_print_text",
     "print_out"}

\* where a thread is inside a registry operation
InRegistryCall ==
    {"ulht_entry", "ulht_lock", "ulht_crit", "ulht_cout",
     "unp_entry", "unp_lock", "unp_crit", "unp_cout",
     "prune_entry", "prune_lock", "prune_crit", "prune_cout",
     "gnl_lock", "gnl_crit"}

----------------------------------------------------------------------------
(* C1 *)

\* C1: while the receiver handles a packet from another node that has a
\* recognized type and not the size of that type, no step of the receiver
\* changes the registry.
C1_WrongSizeLeavesRegistry ==
    [][(RxStep /\ WrongSized(packet)) => m_nodeMap' = m_nodeMap]_vars

----------------------------------------------------------------------------
(* C2 *)

\* C2: pruneTimeouts(T) removes exactly the entries whose age
\* now - lastHeardTime, at the clock's resolution, is greater than T, and
\* leaves every other entry as it was.
C2_PruneRemovesExactlyTheExpired ==
    [][(pc["api"] = "prune_crit" /\ pc'["api"] # "prune_crit") =>
         LET T == arg["api"].timeoutDuration * TicksPerSecond
             keep == { id \in DOMAIN m_nodeMap :
                         ~(now["api"] - m_nodeMap[id].lastHeardTime > T) }
         IN /\ DOMAIN m_nodeMap' = keep
            /\ \A id \in keep : m_nodeMap'[id] = m_nodeMap[id]]_vars

----------------------------------------------------------------------------
(* C3 *)

----------------------------------------------------------------------------
(* C4 *)

\* C4: a received packet shorter than the header only reaches the warning:
\* the receiver calls no registry operation for it and its steps leave the
\* registry as it is.
C4_UndersizedIsDiscarded ==
    [][(RxStep /\ (Undersized(packet) \/ Undersized(packet'))) =>
         /\ m_nodeMap' = m_nodeMap
         /\ arg' = arg
         /\ pc'["rx"] \in {"rx_warn_small", "rx_loop"}]_vars

\* the receiver is about to report an undersized packet while the registry
\* holds a peer
C4_Witness ==
    /\ pc["rx"] = "rx_warn_small"
    /\ Undersized(packet)
    /\ packet.sourceNodeId # m_selfNodeId
    /\ m_nodeMap # EmptyMap

----------------------------------------------------------------------------
(* C5 *)

\* C5: after any sequence of updateLastHeardTime and updateNodePosition
\* calls with strictly increasing timestamps per peer and no prune,
\* getNodeList holds for each peer of the sequence exactly one entry, with
\* the timestamp of the peer's last call and the position of its last
\* position report (0,0,0 if it had none).
C5_ListReflectsLastCalls ==
    (pc["api"] = "api_idle" /\ ~hist.pruned /\ hist.increasing) =>
        LET list == GetNodeListCopy(m_nodeMap)
        IN \A id \in DOMAIN hist.last :
             /\ Cardinality({ i \in 1..Len(list) : list[i].nodeId = id }) = 1
             /\ \A i \in 1..Len(list) :
                  list[i].nodeId = id =>
                    /\ list[i].lastHeardTime = hist.last[id].time
                    /\ PositionOf(list[i].lastPosition) = hist.last[id].pos

\* two peers; one was reported at a position and touched later, the other
\* was only touched
C5_Witness ==
    /\ pc["api"] = "api_idle"
    /\ ~hist.pruned
    /\ hist.increasing
    /\ DOMAIN hist.last = {2, 3}
    /\ hist.last[2].pos \in Positions
    /\ hist.last[2].time > 0
    /\ m_nodeMap[2].lastHeardTime = hist.last[2].time
    /\ hist.last[3].pos = UnknownPosition

----------------------------------------------------------------------------
(* C6 *)

\* C6: no socket is closed twice, and when main has returned every socket
\* that was created has been closed once and WSACleanup has been called
\* once per successful WSAStartup.
C6_ReleasedExactlyOnce ==
    /\ \A s \in DOMAIN os.closes : os.closes[s] <= 1
    /\ pc["main"] = "main_exit" =>
         /\ \A s \in DOMAIN os.closes :
              os.closes[s] = IF s \in os.created THEN 1 ELSE 0
         /\ os.wsaCleanups = os.wsaStartups

----------------------------------------------------------------------------
(* C7 *)

\* C7: isInitialized() implies that the send socket exists with
\* SO_BROADCAST set, the receive socket exists and is bound, and
\* SO_RCVTIMEO has been set on it.
C7_InitializedMeansConfigured ==
    isInitialized =>
        /\ "sendSocket" \in os.created
        /\ os.broadcast
        /\ "recvSocket" \in os.created
        /\ os.bound
        /\ os.rcvtimeo

----------------------------------------------------------------------------
(* C8 *)

\* C8: a thread that reads or writes m_nodeMap holds m_mutex, and at most
\* one thread is at such a place.
C8_MapAccessUnderMutex ==
    /\ \A t \in Threads : pc[t] \in MapAccess => m_mutex = t
    /\ Cardinality({ t \in Threads : pc[t] \in MapAccess }) <= 1

\* the receiver is inside updateLastHeardTime's critical section while the
\* sender waits for the lock in pruneTimeouts
C8_Witness ==
    /\ pc["rx"] = "ulht_crit"
    /\ pc["tx"] = "prune_lock"
    /\ m_mutex = "rx"

----------------------------------------------------------------------------
(* C9 *)

\* C9: a thread that holds m_mutex is not writing to the console.
C9_NoOutputUnderMutex ==
    \A t \in Threads : m_mutex = t => pc[t] \notin ConsoleOutput

----------------------------------------------------------------------------
(* C10 *)

\* C10: no step replaces the lastHeardTime of an entry by an earlier time.
C10_LastHeardNeverDecreases ==
    [][\A id \in DOMAIN m_nodeMap \cap DOMAIN m_nodeMap' :
         m_nodeMap'[id].lastHeardTime >= m_nodeMap[id].lastHeardTime]_vars

\* the sender still holds a copy of an entry that the receiver has since
\* updated, by a position report, to a later time
C10_Witness ==
    /\ pc["tx"] = "print_out"
    /\ \E i \in 1..Len(nodeList["tx"]) :
         LET e == nodeList["tx"][i]
         IN /\ e.nodeId \in DOMAIN m_nodeMap
            /\ m_nodeMap[e.nodeId].lastHeardTime > e.lastHeardTime
            /\ PositionOf(m_nodeMap[e.nodeId].lastPosition) \in Positions
            /\ PositionOf(e.lastPosition) \in Positions

----------------------------------------------------------------------------
(* C11 *)

\* where the receiver is between two packets
RxBetweenPackets == {"rx_loop", "rx_recv", "rx_nothing", "rx_done"}

\* the receiver applies the message it holds to the registry
RxApplies ==
    /\ RxStep
    /\ pc["rx"] \in {"ulht_crit", "unp_crit"}

\* the peer the receiver's registry call is about
RxPeer ==
    IF arg["rx"].op = "ulht" THEN arg["rx"].nodeId
    ELSE arg["rx"].report.header.sourceNodeId

\* C11 (as stated): whenever the receiver is between two packets, the
\* peers in the registry are the peers from which a message has been
\* received and which no prune pass has removed since the last such
\* message.
C11_EntryIffHeardAndNotPruned ==
    pc["rx"] \in RxBetweenPackets => DOMAIN m_nodeMap = hist.heard

\* C11: the registry starts empty and never holds the local id; the entry
\* of peer X appears exactly when the receiver applies a received message
\* from X to the registry (updateLastHeardTime, or updateNodePosition for
\* a position report), each such call leaves X with an entry, and only a
\* prune pass makes entries disappear.
C11_EntryFollowsApplyAndPrune ==
    [][/\ m_selfNodeId \notin DOMAIN m_nodeMap'
       /\ RxApplies =>
             /\ RxPeer # m_selfNodeId
             /\ DOMAIN m_nodeMap' = DOMAIN m_nodeMap \cup {RxPeer}
       /\ DOMAIN m_nodeMap' # DOMAIN m_nodeMap =>
             \/ RxApplies
             \/ /\ pc["tx"] = "prune_crit"
                /\ pc'["tx"] # pc["tx"]
                /\ DOMAIN m_nodeMap' \subseteq DOMAIN m_nodeMap]_vars

\* a prune pass has removed the peer between the reception of its message
\* and the call that applies it, and the call has brought the entry back
C11_Witness ==
    /\ pc["rx"] \in RxBetweenPackets
    /\ \E X \in DOMAIN m_nodeMap : X \notin hist.heard

----------------------------------------------------------------------------
(* C12 *)

\* the sequence holds the entries of the map, each once
IsCopyOf(list, map) ==
    /\ Len(list) = Cardinality(DOMAIN map)
    /\ \A id \in DOMAIN map : \E i \in 1..Len(list) : list[i] = map[id]

\* C12: while the sender is copying in getNodeList no step changes the
\* map; the vector it returns holds the whole map as it was at that time;
\* and while the sender holds the returned vector no step changes it,
\* whatever is done to the registry.
C12_SnapshotIsPointInTime ==
    [][/\ (pc["tx"] = "gnl_crit" /\ ~TxStep) => m_nodeMap' = m_nodeMap
       /\ (pc["tx"] = "gnl_crit" /\ TxStep) =>
             /\ IsCopyOf(nodeList'["tx"], m_nodeMap)
             /\ m_nodeMap' = m_nodeMap
       /\ (pc["tx"] = "print_out" /\ ~TxStep) =>
             nodeList'["tx"] = nodeList["tx"]]_vars

\* the sender holds a copy and the registry has changed since
C12_Witness ==
    /\ pc["tx"] = "print_out"
    /\ nodeList["tx"] # <<>>
    /\ ~IsCopyOf(nodeList["tx"], m_nodeMap)

----------------------------------------------------------------------------
(* C13 *)

\* C13 (as stated): when receive() has timed out, what it returned differs
\* from what it returns after a receive error.
C13_TimeoutDistinctFromError ==
    (ioRet["api"].op = "receive" /\ ioRet["api"].outcome = "WSAETIMEDOUT")
        => ioRet["api"].value # receive("error").value

\* C13: a receive() that timed out returned an empty optional, left no
\* packet and wrote nothing to std::cerr; after a connection reset or
\* another receive error it returned an empty optional as well and wrote
\* a line to std::cerr.
C13_TimeoutIsSilentNullopt ==
    ioRet["api"].op = "receive" =>
        /\ ioRet["api"].outcome = "WSAETIMEDOUT" =>
              ~ioRet["api"].value /\ ~ioRet["api"].cerr /\ packet = NoPacket
        /\ ioRet["api"].outcome \in {"WSAECONNRESET", "error"} =>
              ~ioRet["api"].value /\ ioRet["api"].cerr /\ packet = NoPacket

C13_Witness ==
    /\ ioRet["api"].op = "receive"
    /\ ioRet["api"].outcome = "WSAETIMEDOUT"
    /\ net.m_initialized

----------------------------------------------------------------------------
(* C14 *)

\* both sockets exist and none has been closed
SocketsOpen ==
    /\ net.m_sendSocket # INVALID_SOCKET
    /\ net.m_recvSocket # INVALID_SOCKET
    /\ \A sock \in {"sendSocket", "recvSocket"} : os.closes[sock] = 0

\* C14: a receive() of the receiver thread changes neither the transport
\* object nor its sockets, whatever recvfrom did; when it returned nothing
\* the receiver goes back to the head of its loop, from where, the flag
\* not being set, it calls receive() again; and whenever the receiver is
\* in receive() the transport is initialized with both sockets open and a
\* packet can be returned.
C14_ReceiveNeverEndsTransport ==
    [][/\ (pc["rx"] \in {"rx_recv", "rx_nothing"} /\ RxStep) =>
             net' = net /\ os' = os
       /\ (pc["rx"] = "rx_nothing" /\ RxStep) => pc'["rx"] = "rx_loop"
       /\ (pc["rx"] = "rx_loop" /\ RxStep /\ ~g_shutdown_flag) =>
             pc'["rx"] = "rx_recv"
       /\ pc["rx"] = "rx_recv" =>
             isInitialized /\ SocketsOpen /\ ENABLED rx_ReceivePacket]_vars

\* receive() has returned nothing after a receive error
C14_Witness ==
    /\ pc["rx"] = "rx_nothing"
    /\ ioRet["rx"].outcome = "error"
    /\ ~g_shutdown_flag

----------------------------------------------------------------------------
(* C15 *)

\* C15: sendBroadcast has returned true exactly when sendto sent the whole
\* buffer.
C15_TrueExactlyWhenAllSent ==
    ioRet["api"].op = "send" =>
        (ioRet["api"].value <=> ioRet["api"].outcome = "full")

----------------------------------------------------------------------------
(* C16 *)

\* the thread has been started and has not finished
Running(t) == pc[t] \notin {"not_started", t \o "_done"}

\* a socket has been closed or Winsock released
TornDown ==
    \/ os.wsaCleanups > 0
    \/ \E sock \in {"sendSocket", "recvSocket"} : os.closes[sock] > 0

\* C16: with exit code 1 the transport is not initialized and no thread
\* was started; with exit code 0 the flag is set and both threads have
\* finished; a thread only runs on an initialized transport that has not
\* been torn down; and main has exited with one of the two codes.
C16_ProcessOrdering ==
    /\ exitCode \in {-1, 0, 1}
    /\ pc["main"] = "main_exit" <=> exitCode # -1
    /\ exitCode = 1 =>
          /\ ~isInitialized
          /\ pc["rx"] = "not_started" /\ pc["tx"] = "not_started"
    /\ exitCode = 0 =>
          /\ isInitialized /\ g_shutdown_flag
          /\ pc["rx"] = "rx_done" /\ pc["tx"] = "tx_done"
    /\ \A t \in {"rx", "tx"} : Running(t) => isInitialized /\ ~TornDown
    /\ pc["main"] \in {"main_join_rx", "main_join_tx", "main_return"} =>
          g_shutdown_flag

\* the normal exit, with a peer still registered
C16_Witness ==
    exitCode = 0 /\ m_nodeMap # EmptyMap /\ TornDown

----------------------------------------------------------------------------
(* C17 *)

\* Fairness: the scheduler lets each thread take its next step; a
\* recvfrom with SO_RCVTIMEO set returns when the time is up. That data
\* arrives, or that the operator presses Enter, nothing guarantees.
Fairness ==
    /\ WF_vars(rx_Loop \/ rx_Continue \/ rx_WarnSmall \/ rx_Switch
                \/ rx_PrintText \/ NodeManagerStep("rx"))
    /\ WF_vars(rx_Receive("WSAETIMEDOUT"))
    /\ WF_vars(senderThreadFunc \/ NodeManagerStep("tx"))
    /\ WF_vars(main_JoinRx \/ main_JoinTx \/ main_Return)

SpecFair == Init /\ [][Next]_vars /\ Fairness

\* C17: once the flag is set, both threads finish and main exits.
C17_ShutdownTerminates ==
    g_shutdown_flag ~> (/\ pc["rx"] = "rx_done"
                        /\ pc["tx"] = "tx_done"
                        /\ pc["main"] = "main_exit")

----------------------------------------------------------------------------
(* C18 *)

\* C18: the flag, once set, stays set; with the flag set a thread at the
\* head of its loop leaves the loop, and a thread that has left it stays
\* out; a thread starts an iteration (the receiver its receive(), the
\* sender its round of sends) only from the head of its loop.
C18_NoNewIterationAfterShutdown ==
    [][/\ g_shutdown_flag => g_shutdown_flag'
       /\ (g_shutdown_flag /\ pc["rx"] = "rx_loop" /\ RxStep) =>
             pc'["rx"] = "rx_done"
       /\ (g_shutdown_flag /\ pc["tx"] = "tx_loop" /\ TxStep) =>
             pc'["tx"] = "tx_done"
       /\ pc["rx"] = "rx_done" => pc'["rx"] = "rx_done"
       /\ pc["tx"] = "tx_done" => pc'["tx"] = "tx_done"
       /\ (RxStep /\ pc'["rx"] = "rx_recv") => pc["rx"] = "rx_loop"
       /\ (TxStep /\ pc'["tx"] = "tx_pos") => pc["tx"] = "tx_loop"]_vars

\* the flag is set while the receiver applies a packet and the sender is
\* on its way into a prune pass
C18_Witness ==
    /\ g_shutdown_flag
    /\ pc["rx"] = "ulht_crit"
    /\ pc["tx"] = "prune_lock"

----------------------------------------------------------------------------
(* C19 *)

\* C19: the sender sends no heartbeat when it has sent one at the same
\* reading of the clock, that is less than 1/TicksPerSecond second
\* before: the heartbeat waits for an interval of its own.
C19_HeartbeatWaitsForItsInterval ==
    [][(pc["tx"] = "tx_hb" /\ TxStep) => ~hist.heartbeatAtThisTime]_vars

----------------------------------------------------------------------------
(* C20 *)

\* C20: the position report is sent only when SEND_INTERVAL_SECONDS have
\* passed since lastPosSendTime; a send that returned false leaves
\* lastPosSendTime as it was and one that returned true sets it to the
\* `now` of the iteration; nothing else changes lastPosSendTime once the
\* thread has set it up, so that it advances by the interval or more.
C20_PositionTimer ==
    [][/\ (pc["tx"] = "tx_pos" /\ pc'["tx"] = "tx_pos_ret") =>
             now["tx"] - lastPosSendTime
                 >= SEND_INTERVAL_SECONDS * TicksPerSecond
       /\ (pc["tx"] = "tx_pos" /\ pc'["tx"] = "tx_hb") =>
             now["tx"] - lastPosSendTime
                 < SEND_INTERVAL_SECONDS * TicksPerSecond
       /\ (pc["tx"] = "tx_pos_ret" /\ TxStep) =>
             lastPosSendTime' = IF ioRet["tx"].value THEN now["tx"]
                                ELSE lastPosSendTime
       /\ lastPosSendTime' # lastPosSendTime =>
             \/ pc["tx"] = "tx_init"
             \/ /\ pc["tx"] = "tx_pos_ret"
                /\ lastPosSendTime' - lastPosSendTime
                       >= SEND_INTERVAL_SECONDS * TicksPerSecond]_vars

\* a position send has failed and time has passed since
C20_Witness ==
    /\ pc["tx"] = "tx_pos_ret"
    /\ ioRet["tx"].outcome = "error"
    /\ clock > now["tx"]

----------------------------------------------------------------------------
(* C22 *)

\* where the caller of SpecReg is inside updateLastHeardTime
InUpdateLastHeardTime == {"ulht_entry", "ulht_lock", "ulht_crit", "ulht_cout"}

\* C22: a call updateLastHeardTime(id) changes the map in one step only.
\* That step is taken for an id other than the own one; it leaves every
\* entry but id's as it was; an unknown id gets one entry with nodeId = id,
\* the position (0,0,0) and lastHeardTime = the now of the call; of a
\* known id only lastHeardTime changes, to the now of the call.
C22_TouchChangesOnlyTheTime ==
    [][(pc["api"] \in InUpdateLastHeardTime /\ pc'["api"] # pc["api"]) =>
         LET id == arg["api"].nodeId
         IN IF pc["api"] # "ulht_crit"
            THEN m_nodeMap' = m_nodeMap
            ELSE /\ id # m_selfNodeId
                 /\ DOMAIN m_nodeMap' = DOMAIN m_nodeMap \cup {id}
                 /\ \A k \in DOMAIN m_nodeMap \ {id} :
                       m_nodeMap'[k] = m_nodeMap[k]
                 /\ m_nodeMap'[id].lastHeardTime = now["api"]
                 /\ m_nodeMap'[id].nodeId = id
                 /\ IF id \in DOMAIN m_nodeMap
                    THEN m_nodeMap'[id].lastPosition
                           = m_nodeMap[id].lastPosition
                    ELSE PositionOf(m_nodeMap'[id].lastPosition)
                           = UnknownPosition]_vars

\* a known peer with a reported position has been touched at a later
\* time, next to another peer
C22_Witness ==
    /\ pc["api"] = "api_ret"
    /\ arg["api"].op = "ulht"
    /\ Cardinality(DOMAIN m_nodeMap) = 2
    /\ arg["api"].nodeId \in DOMAIN m_nodeMap
    /\ PositionOf(m_nodeMap[arg["api"].nodeId].lastPosition) \in Positions
    /\ m_nodeMap[arg["api"].nodeId].lastHeardTime = now["api"]
    /\ now["api"] > 0

----------------------------------------------------------------------------
(* C23 *)

\* a packet from another node with a whole header and a type the switch
\* does not know
UnknownType(p) ==
    /\ p # NoPacket
    /\ p.size >= SizeofMessageHeader
    /\ p.messageType \notin RecognizedTypes
    /\ p.sourceNodeId # m_selfNodeId

-----------------------------------------------------------------------------
(* C24: the sender's prune against the receiver's refreshes *)

\* the sender's pruneTimeouts call scans and erases (lines 99-119)
TxPruneScans == pc["tx"] = "prune_crit" /\ pc'["tx"] # "prune_crit"

\* C24 as stated: an entry refreshed after the sender's pruneTimeouts call
\* read the clock and before it acquired the lock is kept by that call
C24_RefreshedWhilePruneWaitsIsKept ==
    [][TxPruneScans => hist.refreshedInPrune \subseteq DOMAIN m_nodeMap']_vars

\* C24: under every interleaving, the sender's pruneTimeouts removes only
\* entries whose lastHeardTime is more than timeoutDuration before the moment
\* of removal; an entry refreshed between the call's clock reading and its
\* lock is kept when the timestamp the refresh wrote is within timeoutDuration
\* of that reading; the entries it keeps are unchanged
C24_RemovesOnlyBeyondTimeout ==
    [][TxPruneScans =>
        LET T == arg["tx"].timeoutDuration * TicksPerSecond
        IN /\ \A id \in DOMAIN m_nodeMap \ DOMAIN m_nodeMap' :
                 /\ clock - m_nodeMap[id].lastHeardTime > T
                 /\ now["tx"] - m_nodeMap[id].lastHeardTime > T
           /\ \A id \in hist.refreshedInPrune :
                 now["tx"] - m_nodeMap[id].lastHeardTime <= T
                    => id \in DOMAIN m_nodeMap'
           /\ \A id \in DOMAIN m_nodeMap' :
                 /\ id \in DOMAIN m_nodeMap
                 /\ m_nodeMap'[id] = m_nodeMap[id]]_vars

\* the sender holds the lock and is about to scan; the peer's entry was
\* refreshed while the call waited, with a timestamp later than the call's
\* clock reading, and another reading of the clock would have been too old
C24_Witness ==
    /\ pc["tx"] = "prune_crit"
    /\ \E id \in hist.refreshedInPrune :
          m_nodeMap[id].lastHeardTime > now["tx"]
    /\ now["tx"] > arg["tx"].timeoutDuration * TicksPerSecond

-----------------------------------------------------------------------------
(* C21 *)

\* the last instant of the clock
LastInstant == NODE_TIMEOUT_SECONDS * TicksPerSecond + LateWindow

\* the peer is registered, its last message has been applied, and the clock
\* can still pass its timeout
SilentAndDue(id) ==
    /\ id \in DOMAIN m_nodeMap
    /\ id \in hist.heard
    /\ pc["rx"] \in RxBetweenPackets
    /\ m_nodeMap[id].lastHeardTime
         + (NODE_TIMEOUT_SECONDS + 1) * TicksPerSecond <= LastInstant

\* C21: when no further message from a registered peer is received and the
\* sender loop keeps running, the peer's entry is eventually removed; an
\* entry is removed only by the sender's prune pass, and an absent entry
\* comes back only when the receiver applies a message from that peer.
C21_SilentPeerIsPruned ==
    /\ \A id \in SourceIds : SilentAndDue(id) ~> (id \notin DOMAIN m_nodeMap)
    /\ [][\A id \in SourceIds :
            /\ (id \in DOMAIN m_nodeMap /\ id \notin DOMAIN m_nodeMap')
                  => pc["tx"] = "prune_crit" /\ TxStep
            /\ (id \notin DOMAIN m_nodeMap /\ id \in DOMAIN m_nodeMap')
                  => RxApplies /\ RxPeer = id]_vars

\* the prune pass has just removed the silent peer, and announces it
C21_Witness ==
    /\ pc["tx"] = "prune_cout"
    /\ pc["rx"] \in RxBetweenPackets
    /\ m_nodeMap = EmptyMap
    /\ hist.heard = {}
    /\ clock = LastInstant

----------------------------------------------------------------------------
(* C25 *)

\* C25: every entry of the map has its key as nodeId and as the
\* sourceNodeId in the header of its lastPosition.
C25_EntriesSelfConsistent ==
    \A id \in DOMAIN m_nodeMap :
        /\ m_nodeMap[id].nodeId = id
        /\ m_nodeMap[id].lastPosition.header.sourceNodeId = id

\* one entry was created by updateLastHeardTime and has no position yet,
\* another holds a reported position
C25_Witness ==
    /\ pc["api"] = "api_idle"
    /\ \E a \in DOMAIN m_nodeMap, b \in DOMAIN m_nodeMap :
         /\ PositionOf(m_nodeMap[a].lastPosition) = UnknownPosition
         /\ PositionOf(m_nodeMap[b].lastPosition) \in Positions

====
